---- MODULE Spec2Model ----
(***************************************************************************)
(* A/B testing layer of the landing page (src/ab-testing.js, class         *)
(* ABTesting and its DOMContentLoaded bootstrap).                          *)
(*                                                                         *)
(* One browser tab is modelled.  A page load is: Navigate (the document    *)
(* is parsed, DOMContentLoaded fires and the 500 ms timer is armed), then  *)
(* InitTimer (the timer callback: new ABTesting(config) inside try/catch   *)
(* and registration of the delegated click listener).  localStorage is the *)
(* only state that outlives a load.                                        *)
(*                                                                         *)
(* The collaborators that share the page and the store are modelled each   *)
(* under a specification of its own: two tabs racing on assignVariant      *)
(* (SpecTabs), the lead form of FormHandler with the form listeners of     *)
(* Analytics (SpecForm), the session and the scroll tracking of Analytics  *)
(* (SpecSession, SpecScroll) and window.formNavigation of Main (SpecSteps).*)
(***************************************************************************)
EXTENDS Integers, Sequences, FiniteSets, TLC

VARIABLES
    pc,               \* "closed" | "boot" (timer armed) | "ready" (timer callback ran)
    storage,          \* localStorage: test name -> value under key ab_test_<name>
    url,              \* query string of window.location
    env,              \* what the browser and the page offer on this load
    analyticsEnabled, \* config.analyticsEnabled
    variants,         \* this.variants of the ABTesting instance
    abTesting,        \* window.abTesting has been assigned
    listener,         \* the delegated click listener is registered
    initError,        \* the bootstrap's catch block ran
    dom,              \* state of the elements the tests target
    indicator,        \* the .ab-preview-indicator element, if any
    applied,          \* history: tests whose mutation function ran in this load
    sent,             \* calls made to the analytics collectors, in order
    otherStore,       \* localStorage: the keys without the ab_test_ prefix
    clicks,           \* history: clicks the listener handled in this load, per test they report to
    dismissed,        \* history: the test whose indicator was dismissed to start this load
    unhandled,        \* an exception left a handler of this module uncaught
    entry,            \* history: localStorage at the start of this load
    drew,             \* history: Math.random() was called for the test in this load
    writes,           \* history: number of completed setItem calls per test in this load
    tabs,             \* the tabs that run assignVariant side by side on the shared store
    formHandler,      \* the FormHandler instance, its submit button and its submissions
    analytics,        \* the Analytics instance
    formNavigation,   \* window.formNavigation and the form steps it shows
    now               \* the clock read by Date.now() and new Date()

vars == <<pc, storage, url, env, analyticsEnabled, variants, abTesting, listener,
          initError, dom, indicator, applied, sent, otherStore, clicks, dismissed,
          unhandled, entry, drew, writes, tabs, formHandler, analytics,
          formNavigation, now>>

\* the state of one load of the A/B layer, the store left out
loadVars == <<pc, url, env, analyticsEnabled, variants, abTesting, listener,
              initError, dom, indicator, applied, sent, clicks, dismissed,
              unhandled, entry, drew, writes>>

\* the state of the collaborators
collaborators == <<tabs, formHandler, analytics, formNavigation, now>>

----------------------------------------------------------------------------
(* Bounds of the model *)

\* Math.random() is drawn from {0/RandRes, ..., (RandRes-1)/RandRes}
RandRes == 2
\* number of [data-cta-id] elements on a page that has any
NumButtons == 2
\* clicks handled by the delegated listener in one load
MaxClicks == 1
\* submitForm calls started in one load
MaxSubmits == 2
\* seconds the clock advances while the form is on the page
MaxSeconds == 7
\* constructions of Analytics (loads of the page) in one browser profile
MaxLoads == 3
\* session expiry intervals the clock advances over
MaxExpiries == 2
\* scroll events in one load
MaxScrolls == 3
\* pixels window.scrollY can pass the scrollable height (overscroll)
Overscroll == 2
\* [required] fields in each step of the form
NumRequired == 2

----------------------------------------------------------------------------
(* Configuration: AB_TEST_CONFIG *)

NoValue == "<none>"          \* null / undefined / absent parameter

Tests == {"hero_headline", "why_now_text", "cta_button_color"}

\* Object.keys(config.tests): insertion order of the literal
TestOrder == <<"hero_headline", "why_now_text", "cta_button_color">>

ConfigTests ==
    [t \in Tests |-> IF t = "cta_button_color" THEN <<"blue", "yellow">>
                                               ELSE <<"A", "B">>]

\* a label no test allows
BadLabel == "C"

Labels == {"A", "B", "blue", "yellow", BadLabel}

\* names a preview URL may carry besides the configured ones: a name that is
\* no property of config.tests, and one inherited from Object.prototype
UnknownName == "no_such_test"
ProtoName == "toString"

PreviewNames == Tests \cup {UnknownName, ProtoName}

\* Array.prototype.includes
Includes(arr, v) == \E i \in DOMAIN arr : arr[i] = v

Allowed(t) == {ConfigTests[t][i] : i \in DOMAIN ConfigTests[t]}

----------------------------------------------------------------------------
(* Inputs of one load *)

\* the nominal environment: storage works, both collectors are loaded and
\* work, every targeted element is on the page
Nominal ==
    [store |-> "ok", gtag |-> "ok", fbq |-> "ok",
     hero |-> "full", whynow |-> "full", buttons |-> NumButtons,
     styled |-> "btn--primary"]

\* store:   "ok" | "throws" (every localStorage call throws) | "quota" (setItem throws)
\* gtag/fbq: "ok" | "absent" (window.gtag undefined) | "throws"
\* hero:    "full" | "notitle" (#hero without .hero__title) | "absent"
\* whynow:  "full" | "nourgency" (#why-now without #urgency-final) | "absent"
\* buttons: number of [data-cta-id] elements
\* styled:  the colour class the CTA buttons are served with, "" for none
\* A load deviates from the nominal environment in one aspect at a time:
\* the storage, the collectors, or one targeted element.
Envs ==
    {[Nominal EXCEPT !.store = v] : v \in {"ok", "throws", "quota"}}
    \cup {[Nominal EXCEPT !.gtag = g, !.fbq = f] :
              g \in {"ok", "absent", "throws"}, f \in {"ok", "absent", "throws"}}
    \cup {[Nominal EXCEPT !.hero = v] : v \in {"notitle", "absent"}}
    \cup {[Nominal EXCEPT !.whynow = v] : v \in {"nourgency", "absent"}}
    \cup {[Nominal EXCEPT !.buttons = 0]}
    \cup {[Nominal EXCEPT !.styled = c] : c \in {"btn--yellow", ""}}

\* the environment of a load together with config.analyticsEnabled
Settings == (Envs \X {TRUE}) \cup {<<Nominal, FALSE>>}

NoOverrides == [t \in Tests |-> NoValue]

\* The query string: ab_preview, variant and one ab_<t> per test.  A URL is
\* a preview URL (ab_preview with or without variant; "A" and "yellow" are
\* each allowed by some tests and refused by the others) or carries any
\* combination of overrides (absent, the test's second label, a label the
\* test does not allow).
PreviewUrls ==
    {[preview |-> p, variant |-> v, ov |-> NoOverrides] :
        p \in PreviewNames, v \in {"A", "yellow", NoValue}}

OverrideValues(t) == {NoValue, ConfigTests[t][Len(ConfigTests[t])], BadLabel}

OverrideUrls ==
    {[preview |-> NoValue, variant |-> NoValue, ov |-> o] :
        o \in {f \in [Tests -> Labels \cup {NoValue}] :
                  \A t \in Tests : f[t] \in OverrideValues(t)}}

Urls == PreviewUrls \cup OverrideUrls

PlainUrl == [preview |-> NoValue, variant |-> NoValue, ov |-> NoOverrides]

\* the document as served: no data-variant attributes, the authored texts,
\* no inline style on the CTA buttons
FreshButton(e) ==
    [variant |-> NoValue, classes |-> {e.styled} \ {""}, background |-> "", color |-> ""]

FreshDom(e) ==
    [heroVariant |-> NoValue, titleHTML |-> "authored",
     whyVariant |-> NoValue, urgencyText |-> "authored",
     buttons |-> [i \in 1..e.buttons |-> FreshButton(e)]]

----------------------------------------------------------------------------
(* ABTesting.assignVariant *)

\* Math.floor(Math.random() * n) for Math.random() = k / RandRes
RandomIndex(k, n) == (k * n) \div RandRes

\* localStorage.getItem(prefix + t) of line 134; null when the key is not set
GetItem_Unprefixed(st, t) == NoValue

GetItem(st, t) == st.storage[t]

\* the choice kept in memory only
SetItem_NotStored(st, t, v) ==
    IF st.env.store = "ok"
    THEN st
    ELSE [st EXCEPT !.threw = TRUE]

\* localStorage.setItem(prefix + t, v) in state st of the running constructor
SetItem(st, t, v) ==
    IF st.env.store = "ok"
    THEN [st EXCEPT !.storage[t] = v, !.writes[t] = @ + 1]
    ELSE [st EXCEPT !.threw = TRUE]

StoredUsable_Unchecked(t, storedVariant) == storedVariant # NoValue

\* line 135: the stored value is used when it is truthy and allowed
StoredUsable(t, storedVariant) ==
    storedVariant # NoValue /\ Includes(ConfigTests[t], storedVariant)

ParamUsable_Unchecked(t, paramVariant) == paramVariant # NoValue

\* lines 142-144: the URL has ab_<t> and its value is allowed
ParamUsable(t, paramVariant) ==
    paramVariant # NoValue /\ Includes(ConfigTests[t], paramVariant)

\* lines 152-154: the random draw
SelectedVariant(t, k) ==
    LET list == ConfigTests[t] IN list[RandomIndex(k, Len(list)) + 1]

\* the override consulted before the stored value
AssignVariant_OverrideFirst(st, t, k, u) ==
    IF st.env.store = "throws"
    THEN [st EXCEPT !.threw = TRUE]
    ELSE
      LET storedVariant == GetItem(st, t)
          paramVariant == u.ov[t]
      IN  IF ParamUsable(t, paramVariant)
          THEN SetItem([st EXCEPT !.variants[t] = paramVariant], t, paramVariant)
          ELSE IF StoredUsable(t, storedVariant)
          THEN [st EXCEPT !.variants[t] = storedVariant]
          ELSE SetItem([st EXCEPT !.variants[t] = SelectedVariant(t, k), !.drew[t] = TRUE],
                       t, SelectedVariant(t, k))

AssignVariant(st, t, k, u) ==
    IF st.env.store = "throws"
    THEN [st EXCEPT !.threw = TRUE]
    ELSE
      LET storedVariant == GetItem(st, t)
          paramVariant == u.ov[t]
      IN  IF StoredUsable(t, storedVariant)
          THEN [st EXCEPT !.variants[t] = storedVariant]
          ELSE IF ParamUsable(t, paramVariant)
          THEN SetItem([st EXCEPT !.variants[t] = paramVariant], t, paramVariant)
          ELSE SetItem([st EXCEPT !.variants[t] = SelectedVariant(t, k), !.drew[t] = TRUE],
                       t, SelectedVariant(t, k))

\* Object.keys(config.tests).forEach(assignVariant); a throw ends the loop
RECURSIVE AssignAll(_, _, _, _)
AssignAll(st, i, ks, u) ==
    IF i > Len(TestOrder) \/ st.threw
    THEN st
    ELSE AssignAll(AssignVariant(st, TestOrder[i], ks[TestOrder[i]], u), i + 1, ks, u)

----------------------------------------------------------------------------
(* ABTesting.applyVariants and the three mutation functions *)

ApplyHeroHeadlineVariant(st, variant) ==
    IF st.env.hero = "absent" THEN st
    ELSE LET s1 == [st EXCEPT !.dom.heroVariant = variant]
         IN  IF st.env.hero = "notitle" THEN s1
             ELSE [s1 EXCEPT !.dom.titleHTML =
                        IF variant = "B" THEN "headline_B" ELSE "headline_A"]

\* setAttribute called on the result of getElementById without the null test
ApplyWhyNowTextVariant_NoNullTest(st, variant) ==
    IF st.env.whynow = "absent" THEN [st EXCEPT !.threw = TRUE]
    ELSE LET s1 == [st EXCEPT !.dom.whyVariant = variant]
         IN  IF st.env.whynow = "nourgency" THEN s1
             ELSE [s1 EXCEPT !.dom.urgencyText =
                        IF variant = "B" THEN "urgency_B" ELSE "urgency_A"]

ApplyWhyNowTextVariant(st, variant) ==
    IF st.env.whynow = "absent" THEN st
    ELSE LET s1 == [st EXCEPT !.dom.whyVariant = variant]
         IN  IF st.env.whynow = "nourgency" THEN s1
             ELSE [s1 EXCEPT !.dom.urgencyText =
                        IF variant = "B" THEN "urgency_B" ELSE "urgency_A"]

\* the new class added without removing the old one
ApplyToButton_KeepsOldClass(button, variant) ==
    IF variant = "yellow"
    THEN [variant |-> variant,
          classes |-> button.classes \cup {"btn--yellow"},
          background |-> "#F2C526", color |-> "#000"]
    ELSE [variant |-> variant,
          classes |-> button.classes \cup {"btn--primary"},
          background |-> "", color |-> ""]

ApplyToButton(button, variant) ==
    IF variant = "yellow"
    THEN [variant |-> variant,
          classes |-> (button.classes \ {"btn--primary"}) \cup {"btn--yellow"},
          background |-> "#F2C526", color |-> "#000"]
    ELSE [variant |-> variant,
          classes |-> (button.classes \ {"btn--yellow"}) \cup {"btn--primary"},
          background |-> "", color |-> ""]

\* classList.toggle in place of classList.add
ApplyCtaButtonColorVariant_Toggles(st, variant) ==
    IF Len(st.dom.buttons) = 0 THEN st
    ELSE LET target == IF variant = "yellow" THEN "btn--yellow" ELSE "btn--primary"
             Toggle(b) == [ApplyToButton(b, variant) EXCEPT !.classes =
                              IF target \in b.classes
                              THEN b.classes \ {"btn--primary", "btn--yellow"}
                              ELSE ApplyToButton(b, variant).classes]
         IN  [st EXCEPT !.dom.buttons =
                  [i \in DOMAIN st.dom.buttons |-> Toggle(st.dom.buttons[i])]]

ApplyCtaButtonColorVariant(st, variant) ==
    IF Len(st.dom.buttons) = 0 THEN st
    ELSE [st EXCEPT !.dom.buttons =
              [i \in DOMAIN st.dom.buttons |-> ApplyToButton(st.dom.buttons[i], variant)]]

\* the switch of applyVariants
ApplyOne(st, t) ==
    IF t = "hero_headline" THEN ApplyHeroHeadlineVariant(st, st.variants[t])
    ELSE IF t = "why_now_text" THEN ApplyWhyNowTextVariant(st, st.variants[t])
    ELSE IF t = "cta_button_color" THEN ApplyCtaButtonColorVariant(st, st.variants[t])
    ELSE st

\* Object.keys(this.variants): the tests that have an entry.  Entries are
\* only ever inserted in the order of TestOrder or one at a time.
Keys(vs) == SelectSeq(TestOrder, LAMBDA t : vs[t] # NoValue)

RECURSIVE ApplyFrom(_, _, _)
ApplyFrom(st, keys, i) ==
    IF i > Len(keys) THEN st
    ELSE ApplyFrom([ApplyOne(st, keys[i]) EXCEPT !.applied = @ \cup {keys[i]}], keys, i + 1)

ApplyVariants(st) == ApplyFrom(st, Keys(st.variants), 1)

----------------------------------------------------------------------------
(* ABTesting.trackImpressions *)

\* the collector called outside any try/catch: its exception ends the caller
CallCollector_Uncaught(st, c, ev) ==
    IF st.env[c] = "absent" \/ st.threw THEN st
    ELSE [st EXCEPT !.sent = Append(@, [ev EXCEPT !.collector = c,
                                                  !.delivered = (st.env[c] = "ok")]),
                    !.threw = (st.env[c] = "throws")]

\* one collector call inside its try/catch: made when the collector is on
\* window; a throw is caught and logged
CallCollector(st, c, ev) ==
    IF st.env[c] = "absent" THEN st
    ELSE [st EXCEPT !.sent = Append(@, [ev EXCEPT !.collector = c,
                                                  !.delivered = (st.env[c] = "ok")])]

Impression(t, v) ==
    [kind |-> "impression", collector |-> NoValue, test |-> t, variant |-> v,
     conversion |-> NoValue, delivered |-> FALSE]

RECURSIVE ImpressionsFrom(_, _, _)
ImpressionsFrom(st, keys, i) ==
    IF i > Len(keys) THEN st
    ELSE LET ev == Impression(keys[i], st.variants[keys[i]])
         IN  ImpressionsFrom(CallCollector(CallCollector(st, "gtag", ev), "fbq", ev),
                             keys, i + 1)

TrackImpressions(st) ==
    IF ~st.analyticsEnabled THEN st
    ELSE ImpressionsFrom(st, Keys(st.variants), 1)

----------------------------------------------------------------------------
(* ABTesting.handlePreviewMode, addPreviewIndicator, initialize *)

NoIndicator == [shown |-> FALSE, test |-> NoValue, variant |-> NoValue]

AddPreviewIndicator(st, testName, variant) ==
    [st EXCEPT !.indicator = [shown |-> TRUE, test |-> testName, variant |-> variant]]

\* line 63: testName && variant && config.tests[testName]
\*          && config.tests[testName].includes(variant)
\* "yes" / "no", or "throws": config.tests is a plain object, so a name
\* inherited from Object.prototype is truthy and has no includes method
PreviewCondition(testName, variant) ==
    IF testName = NoValue \/ variant = NoValue THEN "no"
    ELSE IF testName \in Tests
         THEN (IF Includes(ConfigTests[testName], variant) THEN "yes" ELSE "no")
    ELSE IF testName = ProtoName THEN "throws"
    ELSE "no"

\* the forced variant applied without being written to localStorage
HandlePreviewMode_NotPersisted(st, u) ==
    LET testName == u.preview
        variant == u.variant
        cond == PreviewCondition(testName, variant)
    IN  IF cond = "throws" THEN [st EXCEPT !.threw = TRUE]
        ELSE IF cond = "no" THEN st
        ELSE AddPreviewIndicator(
                 ApplyVariants([st EXCEPT !.variants[testName] = variant]),
                 testName, variant)

HandlePreviewMode(st, u) ==
    LET testName == u.preview
        variant == u.variant
        cond == PreviewCondition(testName, variant)
    IN  IF cond = "throws" THEN [st EXCEPT !.threw = TRUE]
        ELSE IF cond = "no" THEN st
        ELSE LET s1 == SetItem(st, testName, variant)
             IN  IF s1.threw THEN s1
                 ELSE AddPreviewIndicator(
                          ApplyVariants([s1 EXCEPT !.variants[testName] = variant]),
                          testName, variant)

Initialize(st, ks, u) ==
    IF u.preview # NoValue
    THEN HandlePreviewMode(st, u)
    ELSE LET s1 == AssignAll(st, 1, ks, u)
         IN  IF s1.threw THEN s1
             ELSE TrackImpressions(ApplyVariants(s1))

\* the bootstrap without its try/catch
TryCatch_Missing(st) == st

\* try { ... } catch (e) { console.error(...) } of the bootstrap (lines
\* 330-350): an exception thrown inside is consumed and logged
TryCatch(st) == [st EXCEPT !.caught = st.threw, !.threw = FALSE]

----------------------------------------------------------------------------
(* ABTesting.trackConversion and the delegated click listener *)

Conversion(t, v, conversionType) ==
    [kind |-> "conversion", collector |-> NoValue, test |-> t, variant |-> v,
     conversion |-> conversionType, delivered |-> FALSE]

\* reporting regardless of config.analyticsEnabled
TrackConversion_IgnoresSwitch(st, testName, conversionType) ==
    LET variant == st.variants[testName]
    IN  IF variant = NoValue THEN st
        ELSE LET ev == Conversion(testName, variant, conversionType)
             IN  CallCollector(CallCollector(st, "gtag", ev), "fbq", ev)

TrackConversion(st, testName, conversionType) ==
    IF ~st.analyticsEnabled THEN st
    ELSE LET variant == st.variants[testName]
         IN  IF variant = NoValue THEN st
             ELSE LET ev == Conversion(testName, variant, conversionType)
                  IN  CallCollector(CallCollector(st, "gtag", ev), "fbq", ev)

\* what a click can land on: a [data-cta-id] element with one of these
\* identifiers, or (NoValue) an element outside any of them
CtaIds == {"hero_primary", "header_cta", "sticky_cta", "other_cta"}

\* lines 335-346: e.target.closest('[data-cta-id]') and the routing by identifier
ClickListener(st, ctaId) ==
    IF ctaId = NoValue THEN st
    ELSE IF ~st.abTesting THEN st
    ELSE IF ctaId = "hero_primary" THEN TrackConversion(st, "hero_headline", "cta_click")
    ELSE IF ctaId = "header_cta" \/ ctaId = "sticky_cta"
         THEN TrackConversion(st, "cta_button_color", "cta_click")
    ELSE st

----------------------------------------------------------------------------
(* State machine *)

NoVariants == [t \in Tests |-> NoValue]

\* the test a control identifier reports its clicks to
RoutedTo(ctaId) ==
    IF ctaId = "hero_primary" THEN "hero_headline"
    ELSE IF ctaId \in {"header_cta", "sticky_cta"} THEN "cta_button_color"
    ELSE NoValue

\* no click handled yet; NoValue counts the clicks that report to no test
NoClicks == [t \in Tests \cup {NoValue} |-> 0]

RECURSIVE SumClicksOf(_, _)
SumClicksOf(f, ids) ==
    IF ids = {} THEN 0
    ELSE LET id == CHOOSE x \in ids : TRUE
         IN  f[id] + SumClicksOf(f, ids \ {id})
NoDraws == [t \in Tests |-> FALSE]
NoWrites == [t \in Tests |-> 0]

StoreValues == Labels \cup {NoValue}

----------------------------------------------------------------------------
(* The collaborators before they run *)

\* the browser tabs that share the store
Tabs == {"tab1", "tab2"}

\* a tab that has not loaded the page.  pc: "idle" | "get" (before getItem
\* of test i) | "set" (between the draw and setItem of test i) | "done";
\* settled, stamp and put are history: the tests whose key was allowed with
\* no write pending when this load started, the rank of this tab's last
\* write among the writes to the key, and the value it wrote
IdleTab ==
    [pc |-> "idle", i |-> 0, variants |-> NoVariants, selected |-> NoValue,
     settled |-> {}, stamp |-> NoWrites, put |-> NoVariants]

NoTabs == [tab \in Tabs |-> IdleTab]

\* the lead form before FormHandler is constructed.  lastSubmitTime,
\* submitButton and originalButtonText are the fields of the instance (lines
\* 28-31); button is the button[type="submit"] element as authored;
\* message is the message shown last; inFlight holds, for each
\* handleFormSubmit call suspended at await submitForm(), the time it
\* started; started, resolved, lastEvent and lastOutcome are history
AuthoredLabel == "send"
SendingLabel == "sending"

NoOutcome == [result |-> NoValue, success |-> FALSE, error |-> FALSE]

NoFormHandler ==
    [lastSubmitTime |-> 0, submitButton |-> FALSE, originalButtonText |-> "",
     button |-> [present |-> TRUE, disabled |-> FALSE, innerHTML |-> AuthoredLabel],
     message |-> NoValue,
     inFlight |-> <<>>, started |-> 0, resolved |-> 0,
     lastEvent |-> NoValue, lastOutcome |-> NoOutcome]

\* config.scrollDepthThresholds (analytics.js line 22)
ScrollDepthThresholds == <<25, 50, 75, 100>>

Thresholds == {ScrollDepthThresholds[i] : i \in DOMAIN ScrollDepthThresholds}

\* the Analytics instance as its constructor leaves it before init() (lines
\* 30-41); absent values of sessionId and sessionStart are the empty tuple;
\* scrollY and scrollable are window.scrollY and the scrollable height
\* (document.body.scrollHeight - window.innerHeight) at the last scroll event
\* scrolls counts the scroll events of the load;
\* loads counts the constructions of Analytics, loadedAt is the time of the
\* last one, ready says that its init() returned (window.analytics exists)
NoSession == <<>>

NoAnalytics ==
    [sessionId |-> NoSession, sessionStart |-> NoSession,
     formStarted |-> FALSE, formCompleted |-> FALSE,
     scrollTracked |-> [th \in Thresholds |-> FALSE],
     scrollY |-> 0, scrollable |-> 0, unloaded |-> FALSE,
     scrolls |-> 0, loads |-> 0, loadedAt |-> 0, ready |-> FALSE]

\* window.formNavigation.maxSteps, and the .form-step elements of the form
MaxSteps == 2
StepElements == 1..MaxSteps

\* the [required] fields of a step and of the form
FieldsOf(step) == {<<step, k>> : k \in 1..NumRequired}
Fields == UNION {FieldsOf(step) : step \in StepElements}

\* the page before Main.setupFormNavigation ran: no window.formNavigation
\* (exists is FALSE), the first step shown as the page is served, the fields
\* empty, no click handler on the Next and Back buttons. handlers lists the
\* click handlers in the order they were registered; lastClick and before are
\* the button last clicked and currentStep before that click
NoFormNavigation ==
    [exists |-> FALSE, currentStep |-> 0, active |-> {1},
     values |-> [f \in Fields |-> ""], danger |-> {},
     handlers |-> <<>>, lastClick |-> NoValue, before |-> 0]

CollaboratorsAtRest ==
    /\ tabs = NoTabs
    /\ formHandler = NoFormHandler
    /\ analytics = NoAnalytics
    /\ formNavigation = NoFormNavigation
    /\ now = 0

----------------------------------------------------------------------------
(* The page loads *)

Init ==
    /\ pc = "closed"
    /\ storage \in [Tests -> {NoValue, BadLabel}]
    /\ analyticsEnabled = TRUE
    /\ url = PlainUrl
    /\ env = Nominal
    /\ variants = NoVariants
    /\ abTesting = FALSE
    /\ listener = FALSE
    /\ initError = FALSE
    /\ dom = FreshDom(Nominal)
    /\ indicator = NoIndicator
    /\ applied = {}
    /\ sent = <<>>
    /\ otherStore = [session_id |-> "session-1"]
    /\ clicks = NoClicks
    /\ dismissed = NoValue
    /\ unhandled = FALSE
    /\ entry = storage
    /\ drew = NoDraws
    /\ writes = NoWrites
    /\ CollaboratorsAtRest

\* a fresh document: everything but localStorage starts over
FreshPage(u, e, ae) ==
    /\ pc' = "boot"
    /\ url' = u
    /\ env' = e
    /\ variants' = NoVariants
    /\ abTesting' = FALSE
    /\ listener' = FALSE
    /\ initError' = FALSE
    /\ dom' = FreshDom(e)
    /\ indicator' = NoIndicator
    /\ applied' = {}
    /\ sent' = <<>>
    /\ drew' = NoDraws
    /\ writes' = NoWrites
    /\ analyticsEnabled' = ae
    /\ clicks' = NoClicks
    /\ unhandled' = FALSE
    /\ UNCHANGED otherStore
    /\ UNCHANGED collaborators

\* the visitor opens the page: DOMContentLoaded fires, the 500 ms timer is armed
Navigate ==
    /\ pc = "closed"
    /\ \E u \in Urls, s \in Settings : FreshPage(u, s[1], s[2])
    /\ entry' = storage
    /\ dismissed' = NoValue
    /\ UNCHANGED storage

\* the timer callback: try { window.abTesting = new ABTesting(config);
\* document.addEventListener('click', ...) } catch (e) { console.error }
InitTimer ==
    /\ pc = "boot"
    /\ \E ks \in [Tests -> 0..(RandRes - 1)] :
         LET st0 == [env |-> env, analyticsEnabled |-> analyticsEnabled,
                     storage |-> storage, variants |-> NoVariants,
                     drew |-> NoDraws, writes |-> NoWrites, threw |-> FALSE,
                     caught |-> FALSE, abTesting |-> FALSE,
                     dom |-> dom, applied |-> {}, indicator |-> NoIndicator,
                     sent |-> <<>>]
         IN  \E st \in {TryCatch(Initialize(st0, ks, url))} :
             /\ storage' = st.storage
             /\ variants' = st.variants
             /\ drew' = st.drew
             /\ writes' = st.writes
             /\ dom' = st.dom
             /\ applied' = st.applied
             /\ indicator' = st.indicator
             /\ sent' = st.sent
             /\ initError' = st.caught
             /\ unhandled' = st.threw
             /\ abTesting' = (~st.caught /\ ~st.threw)
             /\ listener' = (~st.caught /\ ~st.threw)
    /\ pc' = "ready"
    /\ UNCHANGED <<url, env, analyticsEnabled, entry, otherStore, clicks, dismissed>>
    /\ UNCHANGED collaborators

\* the visitor reloads the page: same URL, same environment
Reload ==
    /\ pc = "ready"
    /\ FreshPage(url, env, analyticsEnabled)
    /\ entry' = storage
    /\ dismissed' = NoValue
    /\ UNCHANGED storage

\* localStorage.clear() in place of removeItem
Dismiss_ClearsStorage ==
    /\ pc = "ready"
    /\ indicator.shown
    /\ env.store # "throws"
    /\ storage' = [t \in Tests |-> NoValue]
    /\ FreshPage(url, env, analyticsEnabled)
    /\ entry' = storage'
    /\ dismissed' = indicator.test

\* the close control of the preview indicator (lines 119-123): the indicator
\* is removed, the test's key is removed, window.location.reload()
Dismiss ==
    /\ pc = "ready"
    /\ indicator.shown
    /\ env.store # "throws"
    /\ storage' = [storage EXCEPT ![indicator.test] = NoValue]
    /\ FreshPage(url, env, analyticsEnabled)
    /\ entry' = storage'
    /\ dismissed' = indicator.test

\* the visitor leaves the page
Unload ==
    /\ pc = "ready"
    /\ pc' = "closed"
    /\ variants' = NoVariants
    /\ abTesting' = FALSE
    /\ listener' = FALSE
    /\ initError' = FALSE
    /\ dom' = FreshDom(Nominal)
    /\ indicator' = NoIndicator
    /\ applied' = {}
    /\ sent' = <<>>
    /\ drew' = NoDraws
    /\ writes' = NoWrites
    /\ url' = PlainUrl
    /\ env' = Nominal
    /\ analyticsEnabled' = TRUE
    /\ entry' = storage
    /\ clicks' = NoClicks
    /\ dismissed' = NoValue
    /\ unhandled' = FALSE
    /\ UNCHANGED <<storage, otherStore>>
    /\ UNCHANGED collaborators

Next == Navigate \/ InitTimer \/ Reload \/ Dismiss \/ Unload

Spec == Init /\ [][Next]_vars

\* clicks the listener handled in this load
TotalClicks == SumClicksOf(clicks, Tests \cup {NoValue})

\* a click reaches the delegated listener registered at line 334
Click ==
    /\ pc = "ready"
    /\ listener
    /\ TotalClicks < MaxClicks
    /\ \E ctaId \in CtaIds \cup {NoValue} :
         /\ (ctaId # NoValue => Len(dom.buttons) > 0)
         /\ \E st \in {ClickListener([env |-> env, analyticsEnabled |-> analyticsEnabled,
                                       variants |-> variants, abTesting |-> abTesting,
                                       sent |-> sent, threw |-> FALSE], ctaId)} :
                /\ sent' = st.sent
                /\ unhandled' = (unhandled \/ st.threw)
         /\ clicks' = [clicks EXCEPT ![RoutedTo(ctaId)] = @ + 1]
    /\ UNCHANGED <<pc, storage, url, env, analyticsEnabled, variants, abTesting, listener,
                   initError, dom, indicator, applied, otherStore, dismissed,
                   entry, drew, writes>>
    /\ UNCHANGED collaborators

NextClicks == Next \/ Click

\* the page loads together with the clicks on its CTA controls
SpecClicks == Init /\ [][NextClicks]_vars

----------------------------------------------------------------------------
(* The mutation functions on arbitrary element states *)

\* the states a targeted element can be in before a mutation function runs:
\* any data-variant, any of the texts, any membership of the two colour
\* classes, the inline style set or empty
TextStates(t) == {"authored", t \o "_A", t \o "_B"}

ButtonStates ==
    {[variant |-> v, classes |-> c, background |-> s[1], color |-> s[2]] :
        v \in {NoValue, "blue", "yellow"},
        c \in SUBSET {"btn--primary", "btn--yellow"},
        s \in {<<"", "">>, <<"#F2C526", "#000">>}}

\* the layouts: the nominal page, or one targeted element missing
Layouts == {e \in Envs : e.store = "ok" /\ e.gtag = "ok" /\ e.fbq = "ok"
                            /\ e.styled = "btn--primary"}

\* the buttons of a page: some of them in one arbitrary state, the others
\* as served
ButtonRows(e) ==
    {[i \in 1..e.buttons |-> IF i \in S THEN b ELSE FreshButton(e)] :
        S \in SUBSET (1..e.buttons), b \in ButtonStates}

ElementStates(e) ==
    {[heroVariant |-> hv, titleHTML |-> th, whyVariant |-> wv, urgencyText |-> ut,
      buttons |-> bs] :
        hv \in {NoValue, "A", "B"}, th \in TextStates("headline"),
        wv \in {NoValue, "A", "B"}, ut \in TextStates("urgency"),
        bs \in ButtonRows(e)}

\* the (test, variant) pairs of the configuration
Pairs == {p \in Tests \X Labels : p[2] \in Allowed(p[1])}

\* one call of the mutation function of test t with variant v on document d
ApplyPairTo(e, d, t, v) ==
    ApplyOne([env |-> e, dom |-> d, variants |-> [NoVariants EXCEPT ![t] = v]], t).dom

InitApply ==
    /\ pc = "apply"
    /\ storage = NoVariants
    /\ analyticsEnabled = TRUE
    /\ url = PlainUrl
    /\ env \in Layouts
    /\ variants = NoVariants
    /\ abTesting = FALSE
    /\ listener = FALSE
    /\ initError = FALSE
    /\ dom \in ElementStates(env)
    /\ indicator = NoIndicator
    /\ applied = {}
    /\ sent = <<>>
    /\ otherStore = [session_id |-> "session-1"]
    /\ clicks = NoClicks
    /\ dismissed = NoValue
    /\ unhandled = FALSE
    /\ entry = storage
    /\ drew = NoDraws
    /\ writes = NoWrites
    /\ CollaboratorsAtRest

\* a mutation function is called with one pair of the configuration
ApplyPair ==
    /\ pc = "apply"
    /\ \E p \in Pairs :
          /\ dom' = ApplyPairTo(env, dom, p[1], p[2])
          /\ variants' = [variants EXCEPT ![p[1]] = p[2]]
          /\ applied' = applied \cup {p[1]}
    /\ UNCHANGED <<pc, storage, url, env, analyticsEnabled, abTesting, listener,
                   initError, indicator, sent, otherStore, clicks, dismissed,
                   unhandled, entry, drew, writes>>
    /\ UNCHANGED collaborators

NextApply == ApplyPair

SpecApply == InitApply /\ [][NextApply]_vars

----------------------------------------------------------------------------
(* Two tabs running assignVariant on the shared store *)

\* the keys Analytics keeps in the same store (analytics.js lines 89, 90, 310)
AnalyticsKeys ==
    [session_id |-> "session-1", session_start |-> "start-1", device_info |-> "device-1"]

\* a write to test t is pending in tab: it drew a variant and has not yet
\* called setItem
PendingWrite(tab, t) ==
    tabs[tab].pc = "set" /\ TestOrder[tabs[tab].i] = t

\* position of test t in Object.keys(config.tests)
IndexOf(t) == CHOOSE i \in DOMAIN TestOrder : TestOrder[i] = t

\* the constructor moves on to the next key of config.tests
NextTest(r) ==
    IF r.i = Len(TestOrder)
    THEN [r EXCEPT !.pc = "done", !.i = 0]
    ELSE [r EXCEPT !.pc = "get", !.i = @ + 1]

InitTabs ==
    /\ pc = "closed"
    /\ storage = NoVariants
    /\ analyticsEnabled = TRUE
    /\ url = PlainUrl
    /\ env = Nominal
    /\ variants = NoVariants
    /\ abTesting = FALSE
    /\ listener = FALSE
    /\ initError = FALSE
    /\ dom = FreshDom(Nominal)
    /\ indicator = NoIndicator
    /\ applied = {}
    /\ sent = <<>>
    /\ otherStore = AnalyticsKeys
    /\ clicks = NoClicks
    /\ dismissed = NoValue
    /\ unhandled = FALSE
    /\ entry = storage
    /\ drew = NoDraws
    /\ writes = NoWrites
    /\ CollaboratorsAtRest

\* a tab loads the page without parameters and its constructor starts
TabOpen ==
    /\ \E tab \in Tabs :
          /\ tabs[tab].pc \in {"idle", "done"}
          /\ tabs' = [tabs EXCEPT ![tab] =
                 [@ EXCEPT !.pc = "get", !.i = 1, !.variants = NoVariants,
                           !.selected = NoValue,
                           !.settled = {t \in Tests :
                               /\ storage[t] \in Allowed(t)
                               /\ \A other \in Tabs : ~PendingWrite(other, t)}]]
    /\ UNCHANGED <<storage, otherStore, writes, formHandler, analytics, formNavigation, now>>
    /\ UNCHANGED <<pc, url, env, analyticsEnabled, variants, abTesting, listener,
                   initError, dom, indicator, applied, sent, clicks, dismissed,
                   unhandled, entry, drew>>

\* assignVariant up to its setItem: getItem, the membership test and, for
\* a key that is absent or not allowed, the random draw and the assignment
\* to this.variants (lines 134-157; the URL has no ab_<test> parameter)
TabGet ==
    /\ \E tab \in Tabs :
          /\ tabs[tab].pc = "get"
          /\ \E r \in {tabs[tab]} : \E t \in {TestOrder[r.i]} :
             \E storedVariant \in {GetItem([storage |-> storage], t)} :
                IF StoredUsable(t, storedVariant)
                THEN tabs' = [tabs EXCEPT ![tab] =
                                 NextTest([r EXCEPT !.variants[t] = storedVariant])]
                ELSE \E k \in 0..(RandRes - 1) :
                        tabs' = [tabs EXCEPT ![tab] =
                                    [r EXCEPT !.variants[t] = SelectedVariant(t, k),
                                              !.selected = SelectedVariant(t, k),
                                              !.pc = "set"]]
    /\ UNCHANGED <<storage, otherStore, writes, formHandler, analytics, formNavigation, now>>
    /\ UNCHANGED <<pc, url, env, analyticsEnabled, variants, abTesting, listener,
                   initError, dom, indicator, applied, sent, clicks, dismissed,
                   unhandled, entry, drew>>

\* the write ignored when the key already holds a value
TabSet_KeepsExisting ==
    /\ \E tab \in Tabs :
          /\ tabs[tab].pc = "set"
          /\ \E r \in {tabs[tab]} : \E t \in {TestOrder[r.i]} :
                /\ storage' = IF storage[t] = NoValue
                               THEN [storage EXCEPT ![t] = r.selected]
                               ELSE storage
                /\ writes' = [writes EXCEPT ![t] = @ + 1]
                /\ tabs' = [tabs EXCEPT ![tab] =
                       NextTest([r EXCEPT !.stamp[t] = writes[t] + 1,
                                          !.put[t] = r.selected,
                                          !.selected = NoValue])]
    /\ UNCHANGED <<otherStore, formHandler, analytics, formNavigation, now>>
    /\ UNCHANGED <<pc, url, env, analyticsEnabled, variants, abTesting, listener,
                   initError, dom, indicator, applied, sent, clicks, dismissed,
                   unhandled, entry, drew>>

\* localStorage.setItem(prefix + test, selectedVariant) (line 158); writes
\* counts the writes of all tabs to the key
TabSet ==
    /\ \E tab \in Tabs :
          /\ tabs[tab].pc = "set"
          /\ \E r \in {tabs[tab]} : \E t \in {TestOrder[r.i]} :
                /\ storage' = [storage EXCEPT ![t] = r.selected]
                /\ writes' = [writes EXCEPT ![t] = @ + 1]
                /\ tabs' = [tabs EXCEPT ![tab] =
                       NextTest([r EXCEPT !.stamp[t] = writes[t] + 1,
                                          !.put[t] = r.selected,
                                          !.selected = NoValue])]
    /\ UNCHANGED <<otherStore, formHandler, analytics, formNavigation, now>>
    /\ UNCHANGED <<pc, url, env, analyticsEnabled, variants, abTesting, listener,
                   initError, dom, indicator, applied, sent, clicks, dismissed,
                   unhandled, entry, drew>>

NextTabs == TabOpen \/ TabGet \/ TabSet

SpecTabs == InitTabs /\ [][NextTabs]_vars

----------------------------------------------------------------------------
(* FormHandler.handleFormSubmit and the form listeners of Analytics *)

\* FORM_CONFIG.rateLimitInterval (ms)
RateLimitInterval == 5000
\* the delay of the simulated request in submitForm (ms)
SimulatedDelay == 1000

\* Date.now() when the page is opened: far more than rateLimitInterval
\* after the epoch, so that the first submit passes line 83
PageOpenedAt == RateLimitInterval + SimulatedDelay

\* line 83 with the test dropped
RateLimited_Never(currentTime, lastSubmitTime) == FALSE

\* line 83
RateLimited(currentTime, lastSubmitTime) ==
    currentTime - lastSubmitTime < RateLimitInterval

FormEvent(name) ==
    [kind |-> name, collector |-> NoValue, test |-> NoValue, variant |-> NoValue,
     conversion |-> NoValue, delivered |-> FALSE]

\* a collector called with no try/catch around it: made when the collector
\* is on window; its exception ends the caller
CallBare(st, c, ev) ==
    IF st.env[c] = "absent" \/ st.threw THEN st
    ELSE [st EXCEPT !.sent = Append(@, [ev EXCEPT !.collector = c,
                                                  !.delivered = (st.env[c] = "ok")]),
                    !.threw = (st.env[c] = "throws")]

\* FormHandler.trackConversion (FORM_CONFIG.analyticsEnabled is true)
FormTrackConversion(st) ==
    CallBare(CallBare(st, "gtag", FormEvent("form_submission")), "fbq", FormEvent("Lead"))

\* handleFormSubmit up to its await: hp is whether the honeypot field is
\* filled, valid what validateForm returns
HandleFormSubmit(st, hp, valid) ==
    IF RateLimited(st.now, st.fh.lastSubmitTime)
    THEN [st EXCEPT !.fh.message = "wait", !.fh.lastEvent = "ratelimited"]
    ELSE IF hp THEN [st EXCEPT !.fh.lastEvent = "honeypot"]
    ELSE IF ~valid THEN [st EXCEPT !.fh.lastEvent = "invalid"]
    ELSE LET s1 == IF st.fh.button.present
                   THEN [st EXCEPT !.fh.submitButton = TRUE,
                                   !.fh.originalButtonText = st.fh.button.innerHTML,
                                   !.fh.button.disabled = TRUE,
                                   !.fh.button.innerHTML = SendingLabel]
                   ELSE [st EXCEPT !.fh.submitButton = FALSE]
         IN  [s1 EXCEPT !.fh.inFlight = Append(@, st.now),
                        !.fh.started = @ + 1,
                        !.fh.lastEvent = "started"]

\* handleFormSubmit after its await: the try block from line 112, the catch
\* and the finally; outcome is how the promise of submitForm settled
ResumeFormSubmit(st, outcome) ==
    LET s1 == IF outcome = "resolved"
              THEN FormTrackConversion(
                       [st EXCEPT !.fh.lastSubmitTime = st.now,
                                  !.fh.message = "success",
                                  !.fh.resolved = @ + 1])
              ELSE [st EXCEPT !.threw = TRUE]
         s2 == IF s1.threw
               THEN [s1 EXCEPT !.threw = FALSE, !.fh.message = "error"]
               ELSE s1
         s3 == IF s2.fh.submitButton
               THEN [s2 EXCEPT !.fh.button.disabled = FALSE,
                               !.fh.button.innerHTML = s2.fh.originalButtonText]
               ELSE s2
    IN  [s3 EXCEPT !.fh.inFlight = Tail(@),
                   !.fh.lastEvent = "settled",
                   !.fh.lastOutcome = [result |-> outcome,
                                       success |-> (outcome = "resolved"),
                                       error |-> s1.threw]]

\* the collectors a page can have
CollectorEnvs ==
    {[Nominal EXCEPT !.gtag = g, !.fbq = f] :
         g \in {"ok", "absent", "throws"}, f \in {"ok", "absent", "throws"}}

InitForm ==
    /\ pc = "closed"
    /\ storage = NoVariants
    /\ analyticsEnabled = TRUE
    /\ url = PlainUrl
    /\ env \in CollectorEnvs
    /\ variants = NoVariants
    /\ abTesting = FALSE
    /\ listener = FALSE
    /\ initError = FALSE
    /\ dom = FreshDom(Nominal)
    /\ indicator = NoIndicator
    /\ applied = {}
    /\ sent = <<>>
    /\ otherStore = AnalyticsKeys
    /\ clicks = NoClicks
    /\ dismissed = NoValue
    /\ unhandled = FALSE
    /\ entry = storage
    /\ drew = NoDraws
    /\ writes = NoWrites
    /\ tabs = NoTabs
    /\ formHandler \in {[NoFormHandler EXCEPT !.button.present = b] : b \in BOOLEAN}
    /\ analytics = NoAnalytics
    /\ formNavigation = NoFormNavigation
    /\ now = PageOpenedAt

\* what the form actions leave alone
formFrame == <<pc, storage, url, env, analyticsEnabled, variants, abTesting, listener,
               initError, dom, indicator, applied, otherStore, clicks, dismissed,
               unhandled, entry, drew, writes, tabs, formNavigation>>

\* a field of the form gets the focus: the focus listener of
\* Analytics.setupFormTracking (lines 179-195)
FormFocus ==
    /\ ~analytics.unloaded
    /\ IF analytics.formStarted
       THEN UNCHANGED <<analytics, sent>>
       ELSE /\ analytics' = [analytics EXCEPT !.formStarted = TRUE]
            /\ sent' = CallCollector([env |-> env, sent |-> sent], "gtag",
                                      FormEvent("form_start")).sent
    /\ UNCHANGED <<formHandler, now>>
    /\ UNCHANGED formFrame

\* a submit event on the form: the submit listener of Analytics (lines
\* 199-202) and handleFormSubmit up to its first await
FormSubmit ==
    /\ ~analytics.unloaded
    /\ \E hp \in BOOLEAN, valid \in BOOLEAN :
         \E st \in {HandleFormSubmit([fh |-> formHandler, now |-> now], hp, valid)} :
            /\ st.fh.started <= MaxSubmits
            /\ formHandler' = st.fh
    /\ analytics' = [analytics EXCEPT !.formCompleted = TRUE]
    /\ UNCHANGED <<sent, now>>
    /\ UNCHANGED formFrame

\* the promise of the oldest submitForm call settles and handleFormSubmit
\* resumes: resolved once the simulated delay has passed, rejected when
\* building the request threw
FormSettle ==
    /\ ~analytics.unloaded
    /\ formHandler.inFlight # <<>>
    /\ \E outcome \in {"resolved", "rejected"} :
          /\ outcome = "resolved" => now >= Head(formHandler.inFlight) + SimulatedDelay
          /\ \E st \in {ResumeFormSubmit([fh |-> formHandler, now |-> now, env |-> env,
                                            sent |-> sent, threw |-> FALSE], outcome)} :
                /\ formHandler' = st.fh
                /\ sent' = st.sent
    /\ UNCHANGED <<analytics, now>>
    /\ UNCHANGED formFrame

\* time passes
FormTick ==
    /\ ~analytics.unloaded
    /\ now + SimulatedDelay <= PageOpenedAt + MaxSeconds * SimulatedDelay
    /\ now' = now + SimulatedDelay
    /\ UNCHANGED <<formHandler, analytics, sent>>
    /\ UNCHANGED formFrame

\* the visitor leaves: the beforeunload listener of
\* Analytics.setupFormTracking (lines 205-220)
FormUnload ==
    /\ ~analytics.unloaded
    /\ analytics' = [analytics EXCEPT !.unloaded = TRUE]
    /\ sent' = IF analytics.formStarted /\ ~analytics.formCompleted
               THEN CallCollector([env |-> env, sent |-> sent], "gtag",
                                  FormEvent("form_abandonment")).sent
               ELSE sent
    /\ UNCHANGED <<formHandler, now>>
    /\ UNCHANGED formFrame

NextForm == FormFocus \/ FormSubmit \/ FormSettle \/ FormTick \/ FormUnload

SpecForm == InitForm /\ [][NextForm]_vars

----------------------------------------------------------------------------
(* Analytics.initializeSession and createNewSession *)

SessionExpiryMinutes == 30
MsPerMinute == 60000
ExpiryMs == SessionExpiryMinutes * MsPerMinute

\* Date.prototype.toISOString: the time written out in calendar fields, here
\* the whole minutes and the milliseconds within the minute
ToISOString(t) == <<t \div MsPerMinute, t % MsPerMinute>>

\* new Date(string) followed by getTime()
ParseDate(str) == str[1] * MsPerMinute + str[2]

\* the id built at line 86 from the time and Math.random
SessionIdOf(t, r) == <<t, r>>

Expired_AtLimit(t, start) == t - start >= ExpiryMs

\* sessionDuration > sessionExpiryMinutes, with sessionDuration the age in
\* minutes as a fraction (lines 71-73)
Expired(t, start) == t - start > ExpiryMs

\* localStorage.setItem on a key of Analytics
SetSessionItem(st, key, v) ==
    IF st.threw THEN st
    ELSE IF st.env.store = "ok" THEN [st EXCEPT !.store[key] = v]
    ELSE [st EXCEPT !.threw = TRUE]

CreateNewSession(st, r) ==
    LET s1 == [st EXCEPT !.an.sessionId = SessionIdOf(st.now, r),
                         !.an.sessionStart = st.now]
    IN  SetSessionItem(SetSessionItem(s1, "session_id", s1.an.sessionId),
                       "session_start", ToISOString(s1.an.sessionStart))

InitializeSession(st, r) ==
    IF st.env.store = "throws" THEN [st EXCEPT !.threw = TRUE]
    ELSE LET sessionId    == st.store.session_id
             sessionStart == st.store.session_start
         IN  IF sessionId # NoSession /\ sessionStart # NoSession
             THEN LET s1 == [st EXCEPT !.an.sessionId = sessionId,
                                       !.an.sessionStart = ParseDate(sessionStart)]
                  IN  IF Expired(s1.now, s1.an.sessionStart)
                      THEN CreateNewSession(s1, r)
                      ELSE s1
             ELSE CreateNewSession(st, r)

\* the store of a load of the session bookkeeping
StoreModes == {[Nominal EXCEPT !.store = v] : v \in {"ok", "throws", "quota"}}

\* the A/B state of a page on which only a collaborator is followed
LoadAtRest ==
    /\ pc = "closed"
    /\ storage = NoVariants
    /\ analyticsEnabled = TRUE
    /\ url = PlainUrl
    /\ variants = NoVariants
    /\ abTesting = FALSE
    /\ listener = FALSE
    /\ initError = FALSE
    /\ dom = FreshDom(Nominal)
    /\ indicator = NoIndicator
    /\ applied = {}
    /\ clicks = NoClicks
    /\ dismissed = NoValue
    /\ unhandled = FALSE
    /\ entry = storage
    /\ drew = NoDraws
    /\ writes = NoWrites
    /\ tabs = NoTabs

\* a first visit: no session keys in localStorage
InitSession ==
    /\ LoadAtRest
    /\ env = Nominal
    /\ sent = <<>>
    /\ otherStore = [AnalyticsKeys EXCEPT !.session_id = NoSession,
                                         !.session_start = NoSession]
    /\ formHandler = NoFormHandler
    /\ analytics = NoAnalytics
    /\ formNavigation = NoFormNavigation
    /\ now = PageOpenedAt

sessionFrame ==
    <<pc, storage, url, analyticsEnabled, variants, abTesting, listener,
      initError, dom, indicator, applied, sent, clicks, dismissed, unhandled,
      entry, drew, writes, tabs, formHandler, formNavigation>>

\* a load constructs Analytics: init() calls initializeSession; an exception
\* leaves the constructor and window.analytics is never assigned
\* (bootstrap, lines 412-416)
SessionLoad ==
    /\ analytics.loads < MaxLoads
    /\ \E e \in StoreModes, r \in 0..(RandRes - 1) :
         \E st \in {InitializeSession([an |-> [NoAnalytics EXCEPT !.loads = analytics.loads + 1,
                                                                !.loadedAt = now],
                                        store |-> otherStore, env |-> e, now |-> now,
                                        threw |-> FALSE], r)} :
            /\ env' = e
            /\ analytics' = [st.an EXCEPT !.ready = ~st.threw]
            /\ otherStore' = st.store
    /\ UNCHANGED now
    /\ UNCHANGED sessionFrame

\* time passes between loads: one expiry interval, or one millisecond more
\* when the clock stands on a whole number of intervals after the first load
SessionTick ==
    /\ \E g \in {ExpiryMs, 1} :
          /\ g = 1 => ((now - PageOpenedAt) % ExpiryMs = 0 /\ now > PageOpenedAt)
          /\ now + g <= PageOpenedAt + MaxExpiries * ExpiryMs + 1
          /\ now' = now + g
    /\ UNCHANGED <<otherStore, analytics, env>>
    /\ UNCHANGED sessionFrame

\* the visitor clears site data: one or both session keys disappear
SessionClear ==
    /\ \E ks \in (SUBSET {"session_id", "session_start"}) \ {{}} :
          /\ \E k \in ks : otherStore[k] # NoSession
          /\ otherStore' = [k \in DOMAIN otherStore |->
                               IF k \in ks THEN NoSession ELSE otherStore[k]]
    /\ UNCHANGED <<analytics, env, now>>
    /\ UNCHANGED sessionFrame

NextSession == SessionLoad \/ SessionTick \/ SessionClear

SpecSession == InitSession /\ [][NextSession]_vars

----------------------------------------------------------------------------
(* Analytics.trackScrollDepth *)

\* scrollable heights of the page, in pixels: a page that does not scroll, a
\* short one and a long one
ScrollableHeights == {0, 7, 40}

\* Math.round of a non-negative quotient n / d
Round(n, d) == (2 * n + d) \div (2 * d)

\* scrollPercent >= threshold (lines 227-229, 232): with a scrollable height
\* of 0 the quotient is NaN at the top of the page, which compares false,
\* and Infinity below it
Reached(y, h, threshold) ==
    IF h = 0 THEN y > 0 ELSE Round(100 * y, h) >= threshold

\* the event_label / scroll_depth of a threshold
ThresholdLabel(threshold) ==
    CASE threshold = 25 -> "25%" [] threshold = 50 -> "50%"
      [] threshold = 75 -> "75%" [] OTHER -> "100%"

ScrollEvent(name, threshold) ==
    [kind |-> name, collector |-> NoValue, label |-> ThresholdLabel(threshold),
     delivered |-> FALSE]

TrackThreshold_Unflagged(st, threshold, y, h) ==
    IF Reached(y, h, threshold)
    THEN CallCollector(CallCollector([st EXCEPT !.an.scrollTracked[threshold] = TRUE],
                                     "gtag", ScrollEvent("scroll_depth", threshold)),
                       "fbq", ScrollEvent("Scroll_Depth", threshold))
    ELSE st

\* the body of the forEach of trackScrollDepth (lines 231-261)
TrackThreshold(st, threshold, y, h) ==
    IF ~st.an.scrollTracked[threshold] /\ Reached(y, h, threshold)
    THEN CallCollector(CallCollector([st EXCEPT !.an.scrollTracked[threshold] = TRUE],
                                     "gtag", ScrollEvent("scroll_depth", threshold)),
                       "fbq", ScrollEvent("Scroll_Depth", threshold))
    ELSE st

RECURSIVE TrackFrom(_, _, _, _)
TrackFrom(st, i, y, h) ==
    IF i > Len(ScrollDepthThresholds) THEN st
    ELSE TrackFrom(TrackThreshold(st, ScrollDepthThresholds[i], y, h), i + 1, y, h)

TrackScrollDepth(st, y, h) ==
    TrackFrom([st EXCEPT !.an.scrollY = y, !.an.scrollable = h], 1, y, h)

InitScroll ==
    /\ LoadAtRest
    /\ env \in CollectorEnvs
    /\ sent = <<>>
    /\ otherStore = AnalyticsKeys
    /\ formHandler = NoFormHandler
    /\ analytics = [NoAnalytics EXCEPT !.loads = 1, !.ready = TRUE]
    /\ formNavigation = NoFormNavigation
    /\ now = PageOpenedAt

\* a scroll event: the listener registered at line 107
Scroll ==
    /\ analytics.scrolls < MaxScrolls
    /\ \E h \in ScrollableHeights : \E y \in 0..(h + Overscroll) :
         \E st \in {TrackScrollDepth([an |-> analytics, env |-> env, sent |-> sent], y, h)} :
            /\ analytics' = [st.an EXCEPT !.scrolls = @ + 1]
            /\ sent' = st.sent
    /\ UNCHANGED <<pc, storage, url, env, analyticsEnabled, variants, abTesting, listener,
                   initError, dom, indicator, applied, otherStore, clicks, dismissed,
                   unhandled, entry, drew, writes, tabs, formHandler, formNavigation, now>>

NextScroll == Scroll

SpecScroll == InitScroll /\ [][NextScroll]_vars

----------------------------------------------------------------------------
(* window.formNavigation: Main.setupFormNavigation and the Next/Back buttons *)

\* what a visitor can leave in a field: nothing, white space, text
FieldValues == {"", " ", "x"}

\* String.prototype.trim
Trim(v) == IF v = " " THEN "" ELSE v

\* validateStep (lines 600-617): valid says what it returns
ValidateStep(nav, step) ==
    IF step \notin StepElements THEN [nav |-> nav, valid |-> FALSE]
    ELSE LET blank == {f \in FieldsOf(step) : Trim(nav.values[f]) = ""}
         IN  [nav |-> [nav EXCEPT !.danger = (@ \ FieldsOf(step)) \cup blank],
              valid |-> blank = {}]

NextStep_NoNextTest(nav) ==
    IF nav.currentStep \in StepElements
    THEN LET v == ValidateStep(nav, nav.currentStep)
         IN  IF v.valid
             THEN [v.nav EXCEPT !.active = (@ \ {nav.currentStep}) \cup {nav.currentStep + 1},
                                !.currentStep = @ + 1]
             ELSE v.nav
    ELSE nav

\* nextStep (lines 565-586)
NextStep(nav) ==
    IF nav.currentStep \in StepElements /\ (nav.currentStep + 1) \in StepElements
    THEN LET v == ValidateStep(nav, nav.currentStep)
         IN  IF v.valid
             THEN [v.nav EXCEPT !.active = (@ \ {nav.currentStep}) \cup {nav.currentStep + 1},
                                !.currentStep = @ + 1]
             ELSE v.nav
    ELSE nav

\* prevStep (lines 588-598)
PrevStep(nav) ==
    IF nav.currentStep \in StepElements /\ (nav.currentStep - 1) \in StepElements
    THEN [nav EXCEPT !.active = (@ \ {nav.currentStep}) \cup {nav.currentStep - 1},
                     !.currentStep = @ - 1]
    ELSE nav

\* one click event on a button: every registered handler runs in turn and
\* calls nextStep or prevStep of window.formNavigation
RECURSIVE RunHandlers(_, _, _)
RunHandlers(nav, action, i) ==
    IF i > Len(nav.handlers) THEN nav
    ELSE RunHandlers(IF action = "next" THEN NextStep(nav) ELSE PrevStep(nav),
                     action, i + 1)

ClickButton(nav, action) ==
    RunHandlers([nav EXCEPT !.lastClick = action, !.before = nav.currentStep],
                action, 1)

InitSteps ==
    /\ LoadAtRest
    /\ env = Nominal
    /\ sent = <<>>
    /\ otherStore = AnalyticsKeys
    /\ formHandler = NoFormHandler
    /\ analytics = NoAnalytics
    /\ formNavigation = NoFormNavigation
    /\ now = 0

stepsFrame ==
    <<pc, storage, url, env, analyticsEnabled, variants, abTesting, listener,
      initError, dom, indicator, applied, sent, otherStore, clicks, dismissed,
      unhandled, entry, drew, writes, tabs, formHandler, analytics, now>>

\* new Main(), 100 ms after DOMContentLoaded: setupFormNavigation creates
\* window.formNavigation and puts a click handler on the buttons
MainSetup ==
    /\ ~formNavigation.exists
    /\ formNavigation' = [formNavigation EXCEPT !.exists = TRUE, !.currentStep = 1,
                                                !.handlers = Append(@, "Main")]
    /\ UNCHANGED stepsFrame

\* new FormHandler(), 500 ms after DOMContentLoaded: setupEventListeners
\* puts its own click handler on the same buttons
FormHandlerSetup ==
    /\ formNavigation.exists
    /\ Len(formNavigation.handlers) = 1
    /\ formNavigation' = [formNavigation EXCEPT !.handlers = Append(@, "FormHandler")]
    /\ UNCHANGED stepsFrame

\* the visitor edits a required field
TypeField ==
    /\ \E f \in Fields, v \in FieldValues :
          /\ formNavigation.values[f] # v
          /\ formNavigation' = [formNavigation EXCEPT !.values[f] = v]
    /\ UNCHANGED stepsFrame

ClickNext ==
    /\ formNavigation.handlers # <<>>
    /\ formNavigation' = ClickButton(formNavigation, "next")
    /\ UNCHANGED stepsFrame

ClickBack ==
    /\ formNavigation.handlers # <<>>
    /\ formNavigation' = ClickButton(formNavigation, "back")
    /\ UNCHANGED stepsFrame

NextSteps == MainSetup \/ FormHandlerSetup \/ TypeField \/ ClickNext \/ ClickBack

SpecSteps == InitSteps /\ [][NextSteps]_vars

TypeOK ==
    /\ pc \in {"closed", "boot", "ready", "apply"}
    /\ storage \in [Tests -> StoreValues]
    /\ variants \in [Tests -> StoreValues]
    /\ url \in Urls
    /\ env \in Envs

----------------------------------------------------------------------------
(* Vocabulary of the properties *)

\* the timer callback ran to its end without reaching the catch block
Completed == pc = "ready" /\ ~initError

\* the load kinds: a Preview load carries ab_preview, the others do not
PreviewLoad == url.preview # NoValue
NormalLoad == url.preview = NoValue

\* the preview parameters name a configured test and a variant it allows
ValidPreview ==
    /\ url.preview \in Tests
    /\ url.variant \in Allowed(url.preview)

StorageWorks == env.store = "ok"

EntryValid(t) == entry[t] \in Allowed(t)
OverrideValid(t) == url.ov[t] \in Allowed(t)
EntryInvalid(t) == entry[t] # NoValue /\ entry[t] \notin Allowed(t)
OverrideInvalid(t) == url.ov[t] # NoValue /\ url.ov[t] \notin Allowed(t)

\* the loaded collectors
Present == {c \in {"gtag", "fbq"} : env[c] # "absent"}

\* number of impression calls made to collector c for test t in this load
ImpressionCount(c, t) ==
    Cardinality({i \in DOMAIN sent :
        sent[i].kind = "impression" /\ sent[i].collector = c /\ sent[i].test = t})

\* number of conversion calls made to collector c for test t in this load
ConversionCount(c, t) ==
    Cardinality({i \in DOMAIN sent :
        sent[i].kind = "conversion" /\ sent[i].collector = c /\ sent[i].test = t})

\* clicks of this load on the controls of test t
ClicksOn(t) == clicks[t]

\* the event of call i (kind, test, variant, conversion kind) also went to
\* collector c: gtag is called first, fbq right after it
SameEventTo(i, c) ==
    \/ sent[i].collector = c
    \/ \E j \in {IF c = "fbq" THEN i + 1 ELSE i - 1} \cap DOMAIN sent :
          /\ sent[j].collector = c
          /\ sent[j].kind = sent[i].kind
          /\ sent[j].test = sent[i].test
          /\ sent[j].variant = sent[i].variant
          /\ sent[j].conversion = sent[i].conversion

\* what the elements targeted by test t look like once variant v is applied,
\* as far as they exist on the page
ShowsVariant(t, v) ==
    IF t = "hero_headline"
    THEN /\ env.hero # "absent" => dom.heroVariant = v
         /\ env.hero = "full" =>
                dom.titleHTML = (IF v = "B" THEN "headline_B" ELSE "headline_A")
    ELSE IF t = "why_now_text"
    THEN /\ env.whynow # "absent" => dom.whyVariant = v
         /\ env.whynow = "full" =>
                dom.urgencyText = (IF v = "B" THEN "urgency_B" ELSE "urgency_A")
    ELSE \A i \in DOMAIN dom.buttons :
            /\ dom.buttons[i].variant = v
            /\ IF v = "yellow"
               THEN /\ "btn--yellow" \in dom.buttons[i].classes
                    /\ "btn--primary" \notin dom.buttons[i].classes
                    /\ dom.buttons[i].background = "#F2C526"
                    /\ dom.buttons[i].color = "#000"
               ELSE /\ "btn--primary" \in dom.buttons[i].classes
                    /\ "btn--yellow" \notin dom.buttons[i].classes
                    /\ dom.buttons[i].background = ""
                    /\ dom.buttons[i].color = ""

----------------------------------------------------------------------------
(* Assignment *)

\* C1: on every load (Normal, URL-override or Preview, any prior storage),
\* whenever variants[T] is set it is one of config.tests[T]; the index of a
\* random draw, floor(r * n), lies in 0..n-1, and the draws yield every
\* allowed label of a test and no other.
C1_VariantAllowed ==
    /\ \A t \in Tests : variants[t] # NoValue => variants[t] \in Allowed(t)
    /\ \A t \in Tests : \A k \in 0..(RandRes - 1) :
          RandomIndex(k, Len(ConfigTests[t])) \in 0..(Len(ConfigTests[t]) - 1)
    /\ \A t \in Tests :
          {SelectedVariant(t, k) : k \in 0..(RandRes - 1)} = Allowed(t)

\* a load that found a label no test allows in storage, drew at random and
\* came out with the second label
C1_Witness ==
    /\ pc = "ready"
    /\ entry["hero_headline"] = BadLabel
    /\ drew["hero_headline"]
    /\ variants["hero_headline"] = "B"

\* C2: after initialization completes on any load, also one whose URL carries
\* ab_preview, the assignment map has an entry for each configured test.
C2_OneEntryPerTest ==
    Completed => \A t \in Tests : variants[t] # NoValue

\* C3: when storage holds a valid variant V for T at the start of a load
\* without preview and without an override for T, the initialization
\* resolves T to V, draws no random number for T and leaves V in storage; so
\* V is there again for the next load, any number of times.
C3_Persistence ==
    \A t \in Tests :
        (Completed /\ NormalLoad /\ url.ov[t] = NoValue /\ EntryValid(t))
            => /\ variants[t] = entry[t]
               /\ ~drew[t]
               /\ storage[t] = entry[t]

C3_Witness ==
    /\ pc = "ready"
    /\ url = PlainUrl
    /\ StorageWorks
    /\ entry["hero_headline"] = "B"
    /\ variants["hero_headline"] = "B"
    /\ ImpressionCount("gtag", "hero_headline") = 1

C5_StoredBeatsOverride ==
    \A t \in Tests :
        (Completed /\ NormalLoad
                      /\ EntryValid(t) /\ OverrideValid(t) /\ url.ov[t] # entry[t])
            => /\ variants[t] = entry[t]
               /\ writes[t] = 0
               /\ storage[t] = entry[t]

C5_Witness ==
    /\ pc = "ready"
    /\ NormalLoad
    /\ StorageWorks
    /\ entry["why_now_text"] = "A"
    /\ url.ov["why_now_text"] = "B"
    /\ variants["why_now_text"] = "A"

\* C6: with no valid stored value for T and an override ab_<T>=v, v allowed,
\* T resolves to v, v is persisted under T's key, no random draw is made for
\* T, and the page mutation of (T, v) is applied.
C6_OverrideAdopted ==
    \A t \in Tests :
        (Completed /\ NormalLoad
                      /\ ~EntryValid(t) /\ OverrideValid(t))
            => /\ variants[t] = url.ov[t]
               /\ storage[t] = url.ov[t]
               /\ writes[t] = 1
               /\ ~drew[t]
               /\ t \in applied
               /\ ShowsVariant(t, url.ov[t])

\* ?ab_cta_button_color=yellow on an empty store: both buttons turn yellow
C6_Witness ==
    /\ pc = "ready"
    /\ NormalLoad
    /\ entry["cta_button_color"] = NoValue
    /\ url.ov["cta_button_color"] = "yellow"
    /\ storage["cta_button_color"] = "yellow"
    /\ Len(dom.buttons) = NumButtons
    /\ env.styled = "btn--primary"
    /\ \A i \in DOMAIN dom.buttons : dom.buttons[i].classes = {"btn--yellow"}

----------------------------------------------------------------------------
(* Preview *)

\* C7: with ab_preview=T and variant=V, T configured and V allowed for T, T
\* resolves to V and V is persisted for T, whatever was stored for T before.
C7_PreviewPrecedence ==
    (Completed /\ ValidPreview)
        => /\ variants[url.preview] = url.variant
           /\ storage[url.preview] = url.variant

\* the store held the other valid label before the preview load
C7_Witness ==
    /\ pc = "ready"
    /\ url.preview = "hero_headline"
    /\ url.variant = "A"
    /\ entry["hero_headline"] = "B"
    /\ storage["hero_headline"] = "A"
    /\ indicator.shown

\* C8: when ab_preview is present but the pair is malformed (unconfigured
\* test, variant missing or not allowed), initialization falls through to
\* Normal mode: every test is resolved, every variant applied, impressions
\* are emitted, and no preview indicator is shown.
C8_MalformedPreviewFallsThrough ==
    (pc = "ready" /\ PreviewLoad /\ ~ValidPreview /\ StorageWorks)
        => /\ \A t \in Tests : variants[t] \in Allowed(t) /\ t \in applied
           /\ analyticsEnabled =>
                 \A t \in Tests : \A c \in Present : ImpressionCount(c, t) = 1
           /\ ~indicator.shown

\* C9: a successful preview entry for T resolves and applies all configured
\* tests: T with the forced variant, every other test by Normal-mode
\* resolution.
C9_PreviewResolvesAll ==
    (pc = "ready" /\ ValidPreview /\ StorageWorks)
        => /\ variants[url.preview] = url.variant
           /\ \A t \in Tests :
                 /\ variants[t] \in Allowed(t)
                 /\ t \in applied
                 /\ ShowsVariant(t, variants[t])

----------------------------------------------------------------------------
(* Reporting *)

\* C10: on every load whose initialization completes (reporting enabled),
\* exactly one impression per configured test goes to each present
\* collector, carrying the test's name and its resolved variant.
C10_OneImpressionPerTest ==
    (Completed /\ analyticsEnabled)
        => /\ \A t \in Tests : \A c \in Present : ImpressionCount(c, t) = 1
           /\ \A i \in DOMAIN sent :
                 sent[i].kind = "impression" => sent[i].variant = variants[sent[i].test]

\* the same on the loads that carry no ab_preview parameter
ImpressionsOnNormalLoad ==
    (Completed /\ analyticsEnabled /\ NormalLoad)
        => /\ \A t \in Tests : \A c \in Present : ImpressionCount(c, t) = 1
           /\ \A i \in DOMAIN sent :
                 sent[i].kind = "impression" => sent[i].variant = variants[sent[i].test]

\* C11: a collector that throws takes nothing from the other one and
\* nothing reaches the caller: every impression and conversion made to one
\* present collector is made to each present collector, a working collector
\* receives it, the impressions of all tests of a Normal load and one
\* conversion per click on a test's control are still made, no exception
\* leaves trackImpressions or trackConversion, and without collectors
\* nothing is sent and nothing fails.
C11_CollectorIsolation ==
    pc = "ready" =>
        /\ ~unhandled
        /\ initError => (env.store # "ok" \/ url.preview = ProtoName)
        /\ \A i \in DOMAIN sent :
              /\ sent[i].collector \in Present
              /\ sent[i].delivered <=> env[sent[i].collector] = "ok"
              /\ \A c \in Present : SameEventTo(i, c)
        /\ (Completed /\ NormalLoad /\ analyticsEnabled) =>
              \A t \in Tests : \A c \in Present :
                 /\ ImpressionCount(c, t) = 1
                 /\ ConversionCount(c, t) = ClicksOn(t)
        /\ Present = {} => sent = <<>>

\* gtag throws on the impressions and on the conversion of a click, fbq
\* receives them all
C11_Witness ==
    /\ pc = "ready"
    /\ env.gtag = "throws"
    /\ env.fbq = "ok"
    /\ clicks = [NoClicks EXCEPT !["hero_headline"] = 1]
    /\ ~initError
    /\ \A t \in Tests : ImpressionCount("fbq", t) = 1
    /\ ConversionCount("fbq", "hero_headline") = 1
    /\ ConversionCount("gtag", "hero_headline") = 1

\* C12: when localStorage throws on get or set, the module treats it as an
\* empty store: every test is still resolved by random draw on that load,
\* the variants are applied, impressions emitted, and initialization is not
\* aborted by an error.
C12_StorageUnavailable ==
    (pc = "ready" /\ NormalLoad /\ env.store = "throws")
        => /\ ~initError
           /\ \A t \in Tests :
                 /\ variants[t] \in Allowed(t)
                 /\ drew[t]
                 /\ t \in applied
           /\ analyticsEnabled =>
                 \A t \in Tests : \A c \in Present : ImpressionCount(c, t) = 1

----------------------------------------------------------------------------
(* Dismissing the preview indicator *)

\* C13: dismissing the indicator of test T removes the persisted choice of
\* T only: the persisted choices of the other tests and the keys outside the
\* A/B namespace (session_id) stay as they are; then the page is reloaded.
C13_DismissRemovesOnlyT ==
    [][(pc = "ready" /\ pc' # "ready" /\ dismissed' # NoValue)
          => /\ indicator.shown
             /\ dismissed' = indicator.test
             /\ storage' = [storage EXCEPT ![indicator.test] = NoValue]
             /\ otherStore' = otherStore
             /\ pc' = "boot"
             /\ url' = url
             /\ variants' = NoVariants]_vars

\* the indicator of why_now_text was dismissed: its key is gone, the choice
\* persisted for hero_headline and the session key are still there
C13_Witness ==
    /\ pc = "boot"
    /\ dismissed = "why_now_text"
    /\ storage["why_now_text"] = NoValue
    /\ storage["hero_headline"] \in Allowed("hero_headline")
    /\ otherStore.session_id = "session-1"

\* C14: the load that the dismiss action triggers returns the visitor to
\* fresh random assignment for T: T has no persisted value on entry, is
\* resolved by random draw, and no preview indicator is shown.
C14_DismissReturnsToRandom ==
    (pc = "ready" /\ dismissed # NoValue)
        => /\ entry[dismissed] = NoValue
           /\ drew[dismissed]
           /\ variants[dismissed] \in Allowed(dismissed)
           /\ ~indicator.shown

\* C15: idempotence of application: for every (test, variant) pair of the
\* configuration and any starting element state, applying the pair twice
\* leaves the targeted elements (data-variant, text/HTML, class membership,
\* inline background and colour) as applying it once does.
C15_ApplyIdempotent ==
    pc = "apply" =>
        \A p \in Pairs :
            \E once \in {ApplyPairTo(env, dom, p[1], p[2])} :
                ApplyPairTo(env, once, p[1], p[2]) = once

\* the yellow variant was applied to buttons of a page whose hero section
\* started in a state no load of the page produces (data-variant B over the
\* headline of A)
C15_Witness ==
    /\ pc = "apply"
    /\ env = Nominal
    /\ applied = {"cta_button_color"}
    /\ variants["cta_button_color"] = "yellow"
    /\ \A i \in DOMAIN dom.buttons :
          dom.buttons[i] = [variant |-> "yellow", classes |-> {"btn--yellow"},
                            background |-> "#F2C526", color |-> "#000"]
    /\ dom.heroVariant = "B" /\ dom.titleHTML = "headline_A"

----------------------------------------------------------------------------
(* The reporting switch, the order of a load, conversions *)

\* what the constructor does from the current boot state with
\* config.analyticsEnabled = ae and the random draws ks
LoadOutcome(ae, ks) ==
    Initialize([env |-> env, analyticsEnabled |-> ae,
                storage |-> storage, variants |-> NoVariants,
                drew |-> NoDraws, writes |-> NoWrites, threw |-> FALSE,
                caught |-> FALSE, abTesting |-> FALSE,
                dom |-> dom, applied |-> {}, indicator |-> NoIndicator,
                sent |-> <<>>], ks, url)

\* C16: with analyticsEnabled off no impression and no conversion is emitted
\* on any load or click, and the load assigns, persists and mutates the page
\* exactly as it does with the switch on (same storage, same draws).
C16_SwitchOff ==
    /\ ~analyticsEnabled => sent = <<>>
    /\ pc = "boot" =>
          \A ks \in [Tests -> 0..(RandRes - 1)] :
              \E on \in {LoadOutcome(TRUE, ks)}, off \in {LoadOutcome(FALSE, ks)} :
                  /\ off.sent = <<>>
                  /\ off = [on EXCEPT !.sent = <<>>, !.analyticsEnabled = FALSE]

\* a load with the switch off resolved, persisted and applied every test, a
\* CTA was clicked, and nothing was emitted
C16_Witness ==
    /\ pc = "ready"
    /\ ~analyticsEnabled
    /\ clicks = [NoClicks EXCEPT !["hero_headline"] = 1]
    /\ \A t \in Tests : variants[t] \in Allowed(t) /\ storage[t] = variants[t]
    /\ applied = Tests
    /\ sent = <<>>

\* C17: within one load every test is resolved before any variant is
\* applied, every variant is applied before any impression is emitted, and
\* the click listener is registered only after the impressions; hence every
\* conversion emitted through the click listener for test T is preceded, in
\* the same load, by an impression for T.
C17_ImpressionBeforeConversion ==
    \A i \in DOMAIN sent :
        sent[i].kind = "conversion" =>
            /\ sent[i].test \in applied
            /\ \E j \in 1..(i - 1) :
                  /\ sent[j].kind = "impression"
                  /\ sent[j].test = sent[i].test

\* C18: trackConversion(T, kind) emits nothing when T has no resolved
\* variant and otherwise exactly one conversion per present collector with
\* (T, variant of T, kind); once initialization has completed, a click on
\* hero_primary, header_cta or sticky_cta never hits the no-variant case.
C18_ConversionPerClick ==
    (pc = "ready" /\ ~initError)
        => /\ \A i \in DOMAIN sent :
                 sent[i].kind = "conversion" =>
                     /\ sent[i].variant = variants[sent[i].test]
                     /\ sent[i].variant # NoValue
                     /\ sent[i].conversion = "cta_click"
           /\ \A t \in Tests : \A c \in Present :
                 ConversionCount(c, t) =
                     IF variants[t] = NoValue \/ ~analyticsEnabled THEN 0 ELSE ClicksOn(t)
           /\ \A t \in Tests : ClicksOn(t) > 0 => variants[t] # NoValue

----------------------------------------------------------------------------
(* Failures and the life of a persisted choice *)

\* C19: no failure in assignment, application or reporting surfaces as an
\* unhandled error: with storage throwing, collectors throwing or targeted
\* elements missing, and on every later click, no exception leaves the
\* timer callback or the click listener; a failed initialization leaves
\* the page as served and sends nothing.
C19_NothingUnhandled ==
    /\ ~unhandled
    /\ (pc = "ready" /\ initError)
          => /\ ~abTesting /\ ~listener
             /\ applied = {} /\ dom = FreshDom(env)
             /\ sent = <<>> /\ clicks = NoClicks
    /\ (pc = "ready" /\ ~initError) => listener

\* every localStorage call throws: the constructor's exception ended in the
\* catch block of the bootstrap and the page stays as served
C19_Witness ==
    /\ pc = "ready"
    /\ env.store = "throws"
    /\ initError
    /\ ~unhandled
    /\ dom = FreshDom(env)

\* C20: over any sequence of loads and dismiss actions the persisted value
\* of a test T is created on T's first assignment, is read before any random
\* draw for T, is never overwritten while it is an allowed label of T except
\* by a successful Preview entry for T, and is deleted only by the dismiss
\* action of T's preview indicator.
C20_Lifecycle ==
    [][\A t \in Tests :
         /\ (pc = "boot" /\ pc' = "ready" /\ NormalLoad /\ StorageWorks)
               => /\ storage'[t] = variants'[t]
                  /\ storage'[t] \in Allowed(t)
                  /\ storage[t] = NoValue => writes'[t] = 1
         /\ (pc = "boot" /\ pc' = "ready" /\ storage[t] \in Allowed(t))
               => ~drew'[t]
         /\ (storage[t] \in Allowed(t) /\ storage'[t] # storage[t])
               => \/ /\ pc = "boot" /\ pc' = "ready"
                     /\ url.preview = t
                     /\ url.variant \in Allowed(t)
                     /\ storage'[t] = url.variant
                     /\ indicator'.shown
                  \/ /\ pc = "ready" /\ pc' = "boot"
                     /\ dismissed' = t
                     /\ storage'[t] = NoValue
         /\ (storage[t] # NoValue /\ storage'[t] = NoValue)
               => /\ pc = "ready" /\ pc' = "boot"
                  /\ indicator.shown /\ indicator.test = t
                  /\ dismissed' = t]_vars

\* a choice persisted by a normal load was replaced by a preview of the
\* other variant of the same test; the choices of the other tests are still
\* the ones read at the start of the load
C20_Witness ==
    /\ pc = "ready"
    /\ url.preview = "hero_headline"
    /\ entry["hero_headline"] = "B"
    /\ storage["hero_headline"] = "A"
    /\ indicator.shown
    /\ \A t \in Tests \ {"hero_headline"} :
          entry[t] \in Allowed(t) /\ storage[t] = entry[t]

----------------------------------------------------------------------------
(* The collaborators *)

\* C21: two tabs initializing side by side on an empty store may end with
\* different in-memory variants for a test, but every in-memory variant is
\* allowed, the store holds the value of the last writer, every load that
\* starts after the writes resolves the test to the stored value in every
\* tab, and the writes never touch session_id, session_start, device_info.
C21_ConcurrentTabs ==
    /\ \A tab \in Tabs : \A t \in Tests :
          tabs[tab].variants[t] \in Allowed(t) \cup {NoValue}
    /\ \A t \in Tests :
          IF writes[t] = 0
          THEN storage[t] = NoValue
          ELSE \E tab \in Tabs :
                  /\ tabs[tab].stamp[t] = writes[t]
                  /\ storage[t] = tabs[tab].put[t]
                  /\ storage[t] \in Allowed(t)
    /\ \A tab \in Tabs : \A t \in tabs[tab].settled :
          /\ storage[t] \in Allowed(t)
          /\ (tabs[tab].pc = "done" \/ tabs[tab].i > IndexOf(t))
                => tabs[tab].variants[t] = storage[t]
    /\ otherStore = AnalyticsKeys

\* the flip: both tabs finished, tab1 holds A and tab2 holds B for
\* hero_headline, and the store holds the value tab2 wrote last
C21_Witness ==
    /\ \A tab \in Tabs : tabs[tab].pc = "done"
    /\ tabs["tab1"].variants["hero_headline"] = "A"
    /\ tabs["tab2"].variants["hero_headline"] = "B"
    /\ storage["hero_headline"] = "B"
    /\ tabs["tab2"].stamp["hero_headline"] = writes["hero_headline"]
    /\ writes["hero_headline"] > 1

\* what the constructor does from the current boot state on a page that
\* offers e (the document as served), with the random draws ks
LoadOutcomeOn(e, ks) ==
    Initialize([env |-> e, analyticsEnabled |-> analyticsEnabled,
                storage |-> storage, variants |-> NoVariants,
                drew |-> NoDraws, writes |-> NoWrites, threw |-> FALSE,
                caught |-> FALSE, abTesting |-> FALSE,
                dom |-> FreshDom(e), applied |-> {}, indicator |-> NoIndicator,
                sent |-> <<>>], ks, url)

\* a targeted element is absent from the page
MissingTarget == env.hero = "absent" \/ env.whynow = "absent" \/ env.buttons = 0

\* C22: when the element a test targets is absent (#hero, #why-now, or no
\* [data-cta-id] element), applying that test changes no element and raises
\* no error, and the remaining tests are applied and reported as they are
\* on the page that has the element.
C22_MissingTarget ==
    /\ (pc = "ready" /\ MissingTarget)
          => /\ ~unhandled
             /\ env.hero = "absent" =>
                   dom.heroVariant = NoValue /\ dom.titleHTML = "authored"
             /\ env.whynow = "absent" =>
                   dom.whyVariant = NoValue /\ dom.urgencyText = "authored"
             /\ env.buttons = 0 => dom.buttons = <<>>
             /\ NormalLoad =>
                   /\ ~initError
                   /\ \A t \in Tests : variants[t] \in Allowed(t) /\ ShowsVariant(t, variants[t])
                   /\ applied = Tests
                   /\ \A t \in Tests : \A c \in Present : ImpressionCount(c, t) = 1
    /\ (pc = "boot" /\ MissingTarget)
          => \A ks \in [Tests -> 0..(RandRes - 1)] :
                \E here \in {LoadOutcomeOn(env, ks)}, full \in {LoadOutcomeOn(Nominal, ks)} :
                   /\ here.threw = full.threw
                   /\ here.variants = full.variants
                   /\ here.storage = full.storage
                   /\ here.applied = full.applied
                   /\ here.sent = full.sent
                   /\ here.indicator = full.indicator
                   /\ env.hero # "absent" =>
                         /\ here.dom.heroVariant = full.dom.heroVariant
                         /\ here.dom.titleHTML = full.dom.titleHTML
                   /\ env.whynow # "absent" =>
                         /\ here.dom.whyVariant = full.dom.whyVariant
                         /\ here.dom.urgencyText = full.dom.urgencyText
                   /\ env.buttons # 0 => here.dom.buttons = full.dom.buttons

\* a load of a page without #why-now: the section is untouched, the hero
\* and the buttons show their variants, why_now_text is still reported
C22_Witness ==
    /\ pc = "ready"
    /\ env.whynow = "absent"
    /\ NormalLoad
    /\ ~initError
    /\ dom.whyVariant = NoValue
    /\ dom.heroVariant = variants["hero_headline"]
    /\ variants["hero_headline"] = "B"
    /\ \A i \in DOMAIN dom.buttons : dom.buttons[i].variant = variants["cta_button_color"]
    /\ ImpressionCount("gtag", "why_now_text") = 1

----------------------------------------------------------------------------
(* The lead form *)

\* the ways handleFormSubmit returns before it reaches submitForm
Rejections == {"ratelimited", "honeypot", "invalid"}

\* C23: a submit event arriving less than rateLimitInterval after
\* lastSubmitTime is rejected with the wait message and never reaches
\* submitForm; lastSubmitTime changes only when submitForm resolved; an
\* attempt rejected by the rate limit, the honeypot or validation leaves
\* lastSubmitTime and the submit button unchanged.
C23_RateLimit ==
    [][/\ (formHandler' # formHandler /\ formHandler'.lastEvent # "settled"
            /\ now - formHandler.lastSubmitTime < RateLimitInterval)
              => /\ formHandler'.lastEvent = "ratelimited"
                 /\ formHandler'.message = "wait"
       /\ formHandler'.started # formHandler.started
              => now - formHandler.lastSubmitTime >= RateLimitInterval
       /\ formHandler'.lastSubmitTime # formHandler.lastSubmitTime
              => /\ formHandler'.resolved = formHandler.resolved + 1
                 /\ formHandler'.lastSubmitTime = now
                 /\ formHandler'.lastOutcome.result = "resolved"
       /\ formHandler'.lastEvent \in Rejections
              => /\ formHandler'.lastSubmitTime = formHandler.lastSubmitTime
                 /\ formHandler'.button = formHandler.button
                 /\ formHandler'.originalButtonText = formHandler.originalButtonText
                 /\ formHandler'.inFlight = formHandler.inFlight
                 /\ formHandler'.started = formHandler.started]_vars

\* a submission resolved, the button was restored, and a submit event less
\* than five seconds later was turned away with the wait message
C23_Witness ==
    /\ formHandler.lastEvent = "ratelimited"
    /\ formHandler.message = "wait"
    /\ formHandler.started = 1 /\ formHandler.resolved = 1
    /\ formHandler.inFlight = <<>>
    /\ now - formHandler.lastSubmitTime < RateLimitInterval
    /\ now > formHandler.lastSubmitTime
    /\ formHandler.button = [present |-> TRUE, disabled |-> FALSE, innerHTML |-> AuthoredLabel]

\* C24: at most one form submission is in flight at any time: a submit
\* event arriving while an earlier handleFormSubmit still awaits submitForm
\* starts no second submitForm, so one burst of submit events produces at
\* most one submission and one conversion.
C24_OneInFlight == Len(formHandler.inFlight) <= 1

\* C25: whenever no submission is in flight the submit button is enabled
\* and carries the label it had before the first submission started; the
\* 'sending' label is never captured as originalButtonText.
C25_ButtonRestored ==
    /\ formHandler.originalButtonText # SendingLabel
    /\ formHandler.inFlight = <<>>
          => /\ ~formHandler.button.disabled
             /\ formHandler.button.innerHTML = AuthoredLabel

\* C26: the 'error while sending' message is shown only when submitForm
\* rejected; when submitForm resolved no error message is shown for that
\* submit, also when gtag or fbq throws inside FormHandler.trackConversion.
C26_OutcomeConsistent ==
    /\ formHandler.lastOutcome.error => formHandler.lastOutcome.result = "rejected"
    /\ formHandler.lastOutcome.result = "resolved"
          => formHandler.lastOutcome.success /\ ~formHandler.lastOutcome.error

\* number of calls of event name made to gtag
GtagCalls(name) ==
    Cardinality({i \in DOMAIN sent : sent[i].kind = name /\ sent[i].collector = "gtag"})

\* C27: within one load form_start is emitted at most once, and at
\* beforeunload form_abandonment is emitted exactly when a field was focused
\* and the form was never successfully submitted; a submit event rejected by
\* the rate limit, the honeypot or validation does not count as completion.
C27_FormFunnel ==
    env.gtag # "absent"
        => /\ GtagCalls("form_start") <= 1
           /\ GtagCalls("form_start") = 1 <=> analytics.formStarted
           /\ ~analytics.unloaded => GtagCalls("form_abandonment") = 0
           /\ analytics.unloaded =>
                 (GtagCalls("form_abandonment") = 1
                    <=> (analytics.formStarted /\ formHandler.resolved = 0))

----------------------------------------------------------------------------
(* The session of Analytics *)

\* a construction of Analytics whose initializeSession returned
SessionInitialized == analytics'.loads = analytics.loads + 1 /\ analytics'.ready

\* both session keys were in the store when the load began
StoredSession == otherStore.session_id # NoSession /\ otherStore.session_start # NoSession

\* C28: after initializeSession on any load this.sessionId is non-null and
\* equals the stored session_id, and this.sessionStart matches the stored
\* session_start; a stored session whose start is at most 30 minutes old is
\* reused with id and start unchanged, an older one is replaced by a new id
\* and start in memory and storage.
C28_SessionBookkeeping ==
    [][SessionInitialized =>
        /\ analytics'.sessionId # NoSession
        /\ analytics'.sessionId = otherStore'.session_id
        /\ otherStore'.session_start # NoSession
        /\ analytics'.sessionStart = ParseDate(otherStore'.session_start)
        /\ otherStore'.session_start = ToISOString(analytics'.sessionStart)
        /\ (StoredSession /\ now - ParseDate(otherStore.session_start) <= ExpiryMs)
              => /\ otherStore' = otherStore
                 /\ analytics'.sessionId = otherStore.session_id
                 /\ analytics'.sessionStart = ParseDate(otherStore.session_start)
        /\ (StoredSession /\ now - ParseDate(otherStore.session_start) > ExpiryMs)
              => /\ analytics'.sessionId # otherStore.session_id
                 /\ analytics'.sessionStart = now
                 /\ otherStore'.session_id = analytics'.sessionId
                 /\ otherStore'.session_start # otherStore.session_start]_vars

\* a later load that found a session exactly thirty minutes old and kept it
C28_Witness ==
    /\ analytics.loads >= 2
    /\ analytics.ready
    /\ analytics.loadedAt = now
    /\ now - analytics.sessionStart = ExpiryMs
    /\ otherStore.session_id = analytics.sessionId
    /\ ParseDate(otherStore.session_start) = analytics.sessionStart

----------------------------------------------------------------------------
(* Scroll depth *)

\* number of calls made to collector c for threshold th
ScrollCalls(c, th) ==
    Cardinality({i \in DOMAIN sent : sent[i].collector = c
                                     /\ sent[i].label = ThresholdLabel(th)})

ScrollOnce ==
    /\ \A th \in Thresholds : \A c \in {"gtag", "fbq"} :
          /\ ScrollCalls(c, th) <= 1
          /\ env[c] # "absent" => (ScrollCalls(c, th) = 1 <=> analytics.scrollTracked[th])
    /\ \A th \in Thresholds : \A lower \in Thresholds :
          (analytics.scrollTracked[th] /\ lower < th) => analytics.scrollTracked[lower]

\* C29: within one load and for any sequence of scroll positions a
\* scroll_depth event for each threshold (25, 50, 75, 100) is emitted at most
\* once, a scrollTracked flag never reverts from true to false, and whenever
\* a threshold is marked tracked every lower threshold is marked too.
C29_ScrollDepth ==
    /\ []ScrollOnce
    /\ [][\A th \in Thresholds :
            analytics.scrollTracked[th] => analytics'.scrollTracked[th]]_vars

\* every threshold was passed, in more than one scroll event, and the
\* visitor is back at the top of a page that scrolls
C29_Witness ==
    /\ \A th \in Thresholds : analytics.scrollTracked[th]
    /\ analytics.scrolls = MaxScrolls
    /\ analytics.scrollY = 0 /\ analytics.scrollable > 0
    /\ env.gtag = "ok" /\ env.fbq = "throws"
    /\ Len(sent) = 2 * Cardinality(Thresholds)

----------------------------------------------------------------------------
(* Form steps *)

StepsInOrder ==
    formNavigation.exists
        => /\ formNavigation.currentStep \in 1..MaxSteps
           /\ formNavigation.active = {formNavigation.currentStep}

\* C30: for a form with exactly maxSteps (2) step elements and any sequence
\* of Next and Back clicks, currentStep stays within 1..maxSteps, exactly the
\* step element whose data-step equals currentStep is active, one click
\* moves by at most one step although Main and FormHandler both put a
\* handler on the button, and Next advances only when every required field
\* of the current step is non-blank.
C30_StepNavigation ==
    /\ []StepsInOrder
    /\ [][formNavigation.exists =>
            /\ formNavigation'.currentStep - formNavigation.currentStep \in {0 - 1, 0, 1}
            /\ formNavigation'.currentStep > formNavigation.currentStep
                  => /\ formNavigation'.lastClick = "next"
                     /\ \A f \in FieldsOf(formNavigation.currentStep) :
                           formNavigation.values[f] \notin {"", " "}
            /\ formNavigation'.currentStep < formNavigation.currentStep
                  => formNavigation'.lastClick = "back"]_vars

\* both handlers are on the button and a click on Next moved the form from
\* step 1 to step 2
C30_Witness ==
    /\ formNavigation.handlers = <<"Main", "FormHandler">>
    /\ formNavigation.lastClick = "next"
    /\ formNavigation.before = 1
    /\ formNavigation.currentStep = 2
    /\ formNavigation.active = {2}
    /\ \A f \in FieldsOf(2) : Trim(formNavigation.values[f]) # ""

====
